---- MODULE Spec2Model ----
(***************************************************************************)
(* Request admission and error normalisation pipeline of the volunteer     *)
(* activity backend (three deployment variants of server.js), together     *)
(* with the startup sequence and the process-level fatal-error handlers.   *)
(*                                                                         *)
(* The event loop runs one synchronous segment at a time: `cur` is the     *)
(* request whose middleware is executing, `parked` holds the requests that *)
(* wait for an I/O event (body bytes, a route handler's completion, the    *)
(* response's finish event).                                               *)
(***************************************************************************)
EXTENDS Integers, Sequences, FiniteSets, Bags, TLC

VARIABLES
    variant,      \* which of the three server files is deployed
    production,   \* process.env.NODE_ENV === 'production'
    allowedOriginsEnv, \* process.env.ALLOWED_ORIGINS split on ',', {} when it is not set
    workload,     \* environment profile: "shapes" (every request shape, one request at a time),
                  \* "errors" (every handler error, one request at a time) or "flood" (a client
                  \* fills its window: concurrent requests of every kind while its count is
                  \* within MaxRequests of zero or of max, one plain request after another between)
    pc,           \* position of the process: load, authenticate, sync, dirs, listen, listening, exited
    exitCode,     \* process exit code, -1 while the process runs
    log,          \* startup steps performed so far, in order
    fatal,        \* the fatal event the process guardian handled, "none" before
    hits,         \* rate-limit store: client key -> count in the current window
    issued,       \* history: requests of each key that reached the limiter in the current window
                  \* (a request's seq is its number in that count)
    cur,          \* request in its synchronous segment, NoReq when the loop is idle
    parked        \* bag of requests waiting for an I/O event

vars == <<variant, production, allowedOriginsEnv, workload, pc, exitCode, log, fatal, hits, issued, cur, parked>>

\* ------------------------------------------------------------------ bounds

\* requests of a key that reach the limiter in one window ("shapes", "errors";
\* max more for the flooding client), the distance of the flooding client's
\* count from zero and from max within which every kind of request and
\* concurrent service are explored, and the counts a key may have been given
\* back when it sends another request
MaxRequests == 2

\* ------------------------------------------------------- configuration

Variants == {"server", "part_000", "part_001"}

ServerRateMax == 1200
Part000RateMax == 1000
Part001RateMax == 200

RateMax(v) ==
    CASE v = "server" -> ServerRateMax
      [] v = "part_000" -> Part000RateMax
      [] v = "part_001" -> Part001RateMax

\* skipFailedRequests is set in one variant only
SkipFailedRequests(v) == v = "part_000"

\* message.message of the limiter's configured body (the Thai texts of the source)
RateLimitMessage(v) ==
    CASE v = "server" -> "rate-limit:server.js:65"
      [] v = "part_000" -> "rate-limit:part_000:65"
      [] v = "part_001" -> "rate-limit:part_001:68"

\* express.json / express.urlencoded limit in bytes: '100kb' and '1mb'
ServerBodyLimit == 102400
Part000BodyLimit == 1048576
Part001BodyLimit == 102400

BodyLimit(v) ==
    CASE v = "server" -> ServerBodyLimit
      [] v = "part_000" -> Part000BodyLimit
      [] v = "part_001" -> Part001BodyLimit

\* the literal allow-set of the three files
DefaultOrigins == {"http://localhost:5173", "https://project-100-front.onrender.com"}
\* a value of ALLOWED_ORIGINS that shares no origin with the literals
OtherOrigins == {"https://evil.example", "https://other.example"}

\* allowedOrigins: part_001 takes the list from ALLOWED_ORIGINS when it is set
AllowedOrigins(v, env) == IF v = "part_001" /\ env # {} THEN env ELSE DefaultOrigins

\* the Origin header of a request: NoOrigin when it is absent, EmptyOrigin when
\* it is present without a value
NoOrigin == "undefined"
EmptyOrigin == ""
Origins == {NoOrigin, EmptyOrigin, "http://localhost:5173", "https://evil.example"}

\* mutant: the callback admits every origin
OriginAllowedAny(origin, allowed) == TRUE

\* the origin callback: !origin || allowedOrigins.includes(origin)
OriginAllowed(origin, allowed) == origin \in {NoOrigin, EmptyOrigin} \/ origin \in allowed

\* mutant: cors mounted before the limiter
MountOrderCorsFirst(v) ==
    IF v = "part_000"
    THEN <<"security", "redirect", "cors", "limiter", "bodyparser", "static", "routes", "normalizer", "notfound">>
    ELSE <<"security", "cors", "limiter", "bodyparser", "static", "routes", "normalizer", "notfound">>

\* app.use order of the file; the error-handling middleware is mounted before
\* the 404 handler, the limiter before cors
MountOrder(v) ==
    IF v = "part_000"
    THEN <<"security", "redirect", "limiter", "cors", "bodyparser", "static", "routes", "normalizer", "notfound">>
    ELSE <<"security", "limiter", "cors", "bodyparser", "static", "routes", "normalizer", "notfound">>

IndexOf(seq, x) == CHOOSE i \in 1..Len(seq) : seq[i] = x

\* next(): the next mounted stage; a request without an error skips the
\* four-argument error-handling middleware
NextStage(v, s) ==
    LET order == MountOrder(v)
        n == order[IndexOf(order, s) + 1]
    IN IF n = "normalizer" THEN order[IndexOf(order, s) + 2] ELSE n

\* mutant: no error-handling middleware is found, the framework default answers
ErrorStageDefault(v, s) == "finalhandler"

\* next(err): the first error-handling middleware mounted after the stage
ErrorStage(v, s) == "normalizer"

\* ------------------------------------------------------------ requests

Keys == {"ipA", "ipB"}
\* /api/auth/login : a path some mounted router handles; /api/unknown : under
\* the limiter's and routers' prefix but handled by none; /uploads/x : static
\* mount; /foo : no registered prefix
Paths == {"apiRoute", "apiUnknown", "uploads", "other"}
UnderApi(path) == path \in {"apiRoute", "apiUnknown"}

NoReq == [stage |-> "idle"]
NoErr == [name |-> "none"]

Bodies(v) ==
    {[ctype |-> "none", len |-> 0]}
    \cup [ctype : {"json", "form", "other"}, len : {BodyLimit(v), BodyLimit(v) + 1}]

Shapes(v) ==
    {[method |-> "GET", ctype |-> "none", len |-> 0], [method |-> "OPTIONS", ctype |-> "none", len |-> 0]}
    \cup {[method |-> "POST", ctype |-> b.ctype, len |-> b.len] : b \in Bodies(v) \ {[ctype |-> "none", len |-> 0]}}

NewReq(k, p, o, pr, sh) ==
    [key |-> k, path |-> p, origin |-> o, proto |-> pr,
     method |-> sh.method, ctype |-> sh.ctype, len |-> sh.len,
     stage |-> "security", trace |-> <<>>, seq |-> 0,
     current |-> 0, counted |-> FALSE, handlerRan |-> FALSE,
     err |-> NoErr, raisedBy |-> "none", sentBy |-> "none",
     status |-> 0, kind |-> "none", msg |-> "", errs |-> <<>>, hasErrs |-> FALSE,
     ac |-> FALSE, closed |-> FALSE]

\* x-forwarded-proto is read by part_000 only
Protos(v) == IF v = "part_000" THEN {"http", "https"} ELSE {"https"}

GetShape == [method |-> "GET", ctype |-> "none", len |-> 0]

ShapesRequests(v) ==
    {NewReq("ipA", p, o, pr, sh) : p \in Paths, o \in Origins, pr \in Protos(v), sh \in Shapes(v)}

ErrorsRequests(v) == {NewReq(k, "apiRoute", NoOrigin, "https", GetShape) : k \in Keys}

\* a GET of a mounted route from an allowed origin
PlainRequest(k) == NewReq(k, "apiRoute", "http://localhost:5173", "https", GetShape)

FloodRequests(v) ==
    {PlainRequest(k) : k \in Keys}
    \cup {NewReq("ipA", "apiRoute", "https://evil.example", "https", GetShape),
          NewReq("ipA", "apiUnknown", EmptyOrigin, "https", GetShape)}

RequestsFor(w, v) ==
    CASE w = "shapes" -> ShapesRequests(v)
      [] w = "errors" -> ErrorsRequests(v)
      [] w = "flood" -> FloodRequests(v)

\* ----------------------------------------------------- error objects

ErrorNames == {"SequelizeValidationError", "SequelizeUniqueConstraintError", "JsonWebTokenError", "Error"}

\* err.errors: absent, or an array of items each carrying a message
ErrorsFields == {[has |-> FALSE, items |-> <<>>], [has |-> TRUE, items |-> <<>>],
                 [has |-> TRUE, items |-> <<[message |-> "field is required"]>>]}

\* status 0 stands for an absent status, message "" for an absent or empty message
MkErr(n, e, s, m) == [name |-> n, errors |-> e, status |-> s, message |-> m]

AllHandlerErrors == {MkErr(n, e, s, m) : n \in ErrorNames, e \in ErrorsFields, s \in {0, 403}, m \in {"", "boom"}}

FewHandlerErrors == {MkErr("SequelizeValidationError", [has |-> TRUE, items |-> <<[message |-> "field is required"]>>], 0, "Validation error")}

HandlerErrorsFor(w) == IF w = "errors" THEN AllHandlerErrors ELSE FewHandlerErrors

CorsError == MkErr("Error", [has |-> FALSE, items |-> <<>>], 0, "CORS Policy Blocks This Request")
PayloadTooLargeError == MkErr("PayloadTooLargeError", [has |-> FALSE, items |-> <<>>], 413, "request entity too large")
BodySyntaxError == MkErr("SyntaxError", [has |-> FALSE, items |-> <<>>], 400, "Unexpected token")
\* the urlencoded parser's parameterLimit (default 1000) exceeded
TooManyParametersError == MkErr("PayloadTooLargeError", [has |-> FALSE, items |-> <<>>], 413, "too many parameters")
\* the connection closed while the body was being read
RequestAbortedError == MkErr("BadRequestError", [has |-> FALSE, items |-> <<>>], 400, "request aborted")
\* a charset or content-encoding the parsers do not read
UnsupportedMediaTypeError == MkErr("UnsupportedMediaTypeError", [has |-> FALSE, items |-> <<>>], 415, "unsupported charset or content encoding")

MsgValidation == "msg:invalid-data"
MsgDuplicate == "msg:duplicate-data"
MsgToken == "msg:invalid-token"
MsgServerError == "msg:internal-server-error"
MsgNotFound == "msg:api-not-found"

\* req.originalUrl of a request to each path
OriginalUrl(path) ==
    CASE path = "apiRoute" -> "/api/auth/login"
      [] path = "apiUnknown" -> "/api/unknown"
      [] path = "uploads" -> "/uploads/x"
      [] path = "other" -> "/foo"

\* the message of the 404 handler: a fixed text, followed in part_001 by the
\* requested URL
NotFoundMessage(v, path) ==
    IF v = "part_001" THEN MsgNotFound \o ": " \o OriginalUrl(path) ELSE MsgNotFound

RECURSIVE MapMessages(_)
MapMessages(items) ==
    IF items = <<>> THEN <<>> ELSE <<Head(items).message>> \o MapMessages(Tail(items))

\* The error-handling middleware as a function of the error: what it sends, or
\* threw = TRUE when evaluating it raises (err.errors.map on an absent array);
\* res.status(400) has run by then, so the status is already set on the response.
ErrorNormalizer(err) ==
    IF err.name = "SequelizeValidationError"
    THEN IF err.errors.has
         THEN [threw |-> FALSE, status |-> 400, msg |-> MsgValidation, hasErrs |-> TRUE, errs |-> MapMessages(err.errors.items)]
         ELSE [threw |-> TRUE, status |-> 400, msg |-> "", hasErrs |-> FALSE, errs |-> <<>>]
    ELSE IF err.name = "SequelizeUniqueConstraintError"
    THEN IF err.errors.has
         THEN [threw |-> FALSE, status |-> 400, msg |-> MsgDuplicate, hasErrs |-> TRUE, errs |-> MapMessages(err.errors.items)]
         ELSE [threw |-> TRUE, status |-> 400, msg |-> "", hasErrs |-> FALSE, errs |-> <<>>]
    ELSE IF err.name = "JsonWebTokenError"
    THEN [threw |-> FALSE, status |-> 401, msg |-> MsgToken, hasErrs |-> FALSE, errs |-> <<>>]
    ELSE [threw |-> FALSE,
          status |-> IF err.status # 0 THEN err.status ELSE 500,
          msg |-> IF err.message # "" THEN err.message ELSE MsgServerError,
          hasErrs |-> FALSE, errs |-> <<>>]

\* -------------------------------------------------------------- state

Init ==
    /\ variant \in Variants
    /\ workload \in {"shapes", "errors", "flood"}
    \* only part_000 reads NODE_ENV, only part_001 ALLOWED_ORIGINS; both matter
    \* to the requests of "shapes" only
    /\ production \in (IF variant = "part_000" /\ workload = "shapes" THEN BOOLEAN ELSE {FALSE})
    /\ allowedOriginsEnv \in (IF variant = "part_001" /\ workload = "shapes" THEN {{}, OtherOrigins} ELSE {{}})
    /\ pc = "load"
    /\ exitCode = -1
    /\ log = <<>>
    /\ fatal = "none"
    /\ hits = [k \in Keys |-> 0]
    /\ issued = [k \in Keys |-> 0]
    /\ cur = NoReq
    /\ parked = EmptyBag

\* the request leaves its synchronous segment; the number of an admitted
\* request in its window is only kept within the segment it arrived in
Park(r) == parked (+) SetToBag({[r EXCEPT !.seq = IF r.kind = "rateLimit" THEN @ ELSE 0]})
Unpark(r) == parked (-) SetToBag({r})

\* the middleware was invoked
Ran(r, s) == [r EXCEPT !.trace = Append(@, s)]
\* the middleware ran and called next()
Pass(r, s) == [Ran(r, s) EXCEPT !.stage = NextStage(variant, s)]
\* the mount path does not match: the middleware is not invoked
Skip(r, s) == [r EXCEPT !.stage = NextStage(variant, s)]
\* the middleware ran and called next(err)
Raise(r, s, e) == [Ran(r, s) EXCEPT !.stage = ErrorStage(variant, s), !.err = e, !.raisedBy = s]
\* the stage sent the response
Send(r, s, st, kd, m) ==
    [r EXCEPT !.stage = "responded", !.sentBy = s, !.status = st, !.kind = kd, !.msg = m]

\* MemoryStore.decrement: never below zero
Decrement(h, k) == [h EXCEPT ![k] = IF @ > 0 THEN @ - 1 ELSE 0]

\* ------------------------------------------------------------ startup

\* process.exit(code): the requests in flight and the store die with the process
Exit(code, why) ==
    /\ pc' = "exited"
    /\ exitCode' = code
    /\ log' = Append(log, why)
    /\ cur' = NoReq
    /\ parked' = EmptyBag
    /\ hits' = [k \in Keys |-> 0]
    /\ issued' = [k \in Keys |-> 0]

\* module evaluation up to the call of startServer(); part_001 checks the
\* required environment variables and exits when one is missing
LoadModule ==
    /\ pc = "load"
    /\ \E envOK \in BOOLEAN :
         IF variant = "part_001" /\ ~envOK
         THEN Exit(1, "envMissing")
         ELSE /\ pc' = "authenticate"
              /\ UNCHANGED <<exitCode, log, hits, issued, cur, parked>>
    /\ UNCHANGED <<variant, production, allowedOriginsEnv, workload, fatal>>

\* await sequelize.authenticate()
Authenticate ==
    /\ pc = "authenticate"
    /\ \E ok \in BOOLEAN :
         IF ok
         THEN /\ pc' = "sync"
              /\ log' = Append(log, "authenticate")
              /\ UNCHANGED <<exitCode, hits, issued, cur, parked>>
         ELSE Exit(1, "startupError")
    /\ UNCHANGED <<variant, production, allowedOriginsEnv, workload, fatal>>

\* mutant: a failed synchronisation is ignored and startup goes on
SyncIgnoringFailure ==
    /\ pc = "sync"
    /\ \E ok \in BOOLEAN :
         /\ pc' = "dirs"
         /\ log' = IF ok THEN Append(log, "sync") ELSE log
         /\ UNCHANGED <<exitCode, hits, issued, cur, parked>>
    /\ UNCHANGED <<variant, production, allowedOriginsEnv, workload, fatal>>

\* await sequelize.sync()
Sync ==
    /\ pc = "sync"
    /\ \E ok \in BOOLEAN :
         IF ok
         THEN /\ pc' = "dirs"
              /\ log' = Append(log, "sync")
              /\ UNCHANGED <<exitCode, hits, issued, cur, parked>>
         ELSE Exit(1, "startupError")
    /\ UNCHANGED <<variant, production, allowedOriginsEnv, workload, fatal>>

\* setupUploadDirectories(); a throwing mkdirSync lands in the catch block
SetupUploadDirectories ==
    /\ pc = "dirs"
    /\ \E ok \in BOOLEAN :
         IF ok
         THEN /\ pc' = "listen"
              /\ log' = Append(log, "dirs")
              /\ UNCHANGED <<exitCode, hits, issued, cur, parked>>
         ELSE Exit(1, "startupError")
    /\ UNCHANGED <<variant, production, allowedOriginsEnv, workload, fatal>>

\* server.listen(PORT, cb): the listener is bound; a call that throws (a port
\* out of range) lands in the catch block of startServer
Listen ==
    /\ pc = "listen"
    /\ \E ok \in BOOLEAN :
         IF ok
         THEN /\ pc' = "bound"
              /\ log' = Append(log, "listen")
              /\ UNCHANGED <<exitCode, hits, issued, cur, parked>>
         ELSE Exit(1, "startupError")
    /\ UNCHANGED <<variant, production, allowedOriginsEnv, workload, fatal>>

\* the listen callback logs the port and the API URL
ListenCallback ==
    /\ pc = "bound"
    /\ pc' = "listening"
    /\ log' = log \o <<"logPort", "logApiUrl">>
    /\ UNCHANGED <<variant, production, allowedOriginsEnv, workload, exitCode, fatal, hits, issued, cur, parked>>

\* --------------------------------------------------- process guardian

Guardian(event) ==
    /\ pc \notin {"load", "exited"}
    /\ fatal' = event
    /\ Exit(1, "logFatal")
    /\ UNCHANGED <<variant, production, allowedOriginsEnv, workload>>

\* mutant: the rejection is logged and the process goes on
UnhandledRejectionLogOnly ==
    /\ pc \notin {"load", "exited"}
    /\ fatal = "none"
    /\ fatal' = "unhandledRejection"
    /\ log' = Append(log, "logFatal")
    /\ UNCHANGED <<variant, production, allowedOriginsEnv, workload, pc, exitCode, hits, issued, cur, parked>>

\* process.on('unhandledRejection')
UnhandledRejection == Guardian("unhandledRejection")

\* process.on('uncaughtException'); a failed bind is one such exception
UncaughtException == Guardian("uncaughtException")

\* ------------------------------------------------------------ pipeline

\* the flooding client is in the middle of its window: its count is more than
\* MaxRequests away from zero and from max; what is explored there is one
\* plain request after another, each served to its end or to an error, the
\* window ending before or after
Steady ==
    /\ workload = "flood"
    /\ MaxRequests <= hits["ipA"]
    /\ hits["ipA"] + MaxRequests < RateMax(variant)

\* the listener hands a new request to the first middleware; outside the
\* middle of a flooding client's window as many requests are in service at
\* once as there are clients, of one client or of both
Arrive ==
    /\ pc = "listening"
    /\ cur = NoReq
    /\ BagCardinality(parked) < (IF workload = "flood" /\ ~Steady THEN Cardinality(Keys) ELSE 1)
    /\ \E r \in RequestsFor(workload, variant) :
         /\ Steady => r = PlainRequest("ipA")
         /\ UnderApi(r.path) =>
                /\ issued[r.key] < (CASE workload # "flood" -> MaxRequests
                                      [] r.key = "ipA" -> RateMax(variant) + MaxRequests
                                      [] OTHER -> 1)
                /\ issued[r.key] - hits[r.key] < MaxRequests
         /\ cur' = r
    /\ UNCHANGED <<variant, production, allowedOriginsEnv, workload, pc, exitCode, log, fatal, hits, issued, parked>>

\* cookieParser, helmet, xss-clean, hpp, cookieParser: none of them rejects
Security ==
    /\ pc = "listening"
    /\ cur.stage = "security"
    /\ cur' = Pass(cur, "security")
    /\ UNCHANGED <<variant, production, allowedOriginsEnv, workload, pc, exitCode, log, fatal, hits, issued, parked>>

\* part_000: redirect to https in production when x-forwarded-proto is not https
ForceHttps ==
    /\ pc = "listening"
    /\ cur.stage = "redirect"
    /\ IF cur.proto # "https" /\ production
       THEN /\ parked' = Park(Send(Ran(cur, "redirect"), "redirect", 302, "redirect", ""))
            /\ cur' = NoReq
       ELSE /\ cur' = Pass(cur, "redirect")
            /\ UNCHANGED parked
    /\ UNCHANGED <<variant, production, allowedOriginsEnv, workload, pc, exitCode, log, fatal, hits, issued>>

\* mutant: the request that reaches max is already rejected
LimitExceededAtMax(v, current) == current >= RateMax(v)

\* the limiter's test on the count after the increment
LimitExceeded(v, current) == current > RateMax(v)

\* app.use('/api/', limiter): increment the key's count, reject above max
Limiter ==
    /\ pc = "listening"
    /\ cur.stage = "limiter"
    /\ IF ~UnderApi(cur.path)
       THEN /\ cur' = Skip(cur, "limiter")
            /\ UNCHANGED <<hits, issued, parked>>
       ELSE LET current == hits[cur.key] + 1
                r == [cur EXCEPT !.counted = TRUE, !.current = current, !.seq = issued[cur.key] + 1]
            IN /\ hits' = [hits EXCEPT ![cur.key] = current]
               /\ issued' = [issued EXCEPT ![cur.key] = @ + 1]
               /\ IF LimitExceeded(variant, current)
                  THEN /\ parked' = Park(Send(Ran(r, "limiter"), "limiter", 429, "rateLimit", RateLimitMessage(variant)))
                       /\ cur' = NoReq
                  ELSE /\ cur' = Pass(r, "limiter")
                       /\ UNCHANGED parked
    /\ UNCHANGED <<variant, production, allowedOriginsEnv, workload, pc, exitCode, log, fatal>>

\* cors with the origin callback: headers and next(), the preflight answer,
\* or next(new Error('CORS Policy Blocks This Request'))
Cors ==
    /\ pc = "listening"
    /\ cur.stage = "cors"
    /\ IF OriginAllowed(cur.origin, AllowedOrigins(variant, allowedOriginsEnv))
       THEN LET r == [cur EXCEPT !.ac = TRUE]
            IN IF cur.method = "OPTIONS"
               THEN /\ parked' = Park(Send(Ran(r, "cors"), "cors", 204, "preflight", ""))
                    /\ cur' = NoReq
               ELSE /\ cur' = Pass(r, "cors")
                    /\ UNCHANGED parked
       ELSE /\ cur' = Raise(cur, "cors", CorsError)
            /\ UNCHANGED parked
    /\ UNCHANGED <<variant, production, allowedOriginsEnv, workload, pc, exitCode, log, fatal, hits, issued>>

\* the content types express.json and express.urlencoded read
Parsed(ctype) == ctype \in {"json", "form"}

\* mutant: a body one byte above the limit is still read
TooLargeLoose(v, len) == len > BodyLimit(v) + 1

\* the parser's test of the request's length against its limit
TooLarge(v, len) == len > BodyLimit(v)

\* express.json then express.urlencoded: a charset or content-encoding the
\* parser does not read is refused at once (415); a declared length above the
\* limit is refused once the request has been drained; otherwise the body is read
BodyParser ==
    /\ pc = "listening"
    /\ cur.stage = "bodyparser"
    /\ IF Parsed(cur.ctype) /\ cur.len > 0
       THEN \E unsupported \in BOOLEAN :
              IF unsupported
              THEN /\ cur' = Raise(cur, "bodyparser", UnsupportedMediaTypeError)
                   /\ UNCHANGED parked
              ELSE /\ parked' = Park([Ran(cur, "bodyparser") EXCEPT
                                          !.stage = IF TooLarge(variant, cur.len) THEN "draining" ELSE "reading"])
                   /\ cur' = NoReq
       ELSE /\ cur' = Pass(cur, "bodyparser")
            /\ UNCHANGED parked
    /\ UNCHANGED <<variant, production, allowedOriginsEnv, workload, pc, exitCode, log, fatal, hits, issued>>

\* the refused body has been read off: the parser calls next(err) with the 413
BodyRefused ==
    /\ pc = "listening"
    /\ cur = NoReq
    /\ \E r \in BagToSet(parked) :
         /\ r.stage = "draining"
         /\ parked' = Unpark(r)
         /\ cur' = [r EXCEPT !.stage = ErrorStage(variant, "bodyparser"), !.err = PayloadTooLargeError, !.raisedBy = "bodyparser"]
    /\ UNCHANGED <<variant, production, allowedOriginsEnv, workload, pc, exitCode, log, fatal, hits, issued>>

\* what reading and parsing the body can come to: a JSON body may be
\* malformed, a form body may hold more parameters than the parser takes; the
\* read of a closed connection ends with the aborted error
ReadOutcomes(ctype, closed) ==
    IF closed THEN {"aborted"}
    ELSE IF ctype = "json" THEN {"parsed", "malformed"} ELSE {"parsed", "tooManyParameters"}

\* the body has arrived: parsed, a syntax error with status 400 (JSON), or too
\* many parameters with status 413 (form)
BodyRead ==
    /\ pc = "listening"
    /\ cur = NoReq
    /\ \E r \in BagToSet(parked) :
         /\ r.stage = "reading"
         /\ parked' = Unpark(r)
         /\ \E outcome \in ReadOutcomes(r.ctype, r.closed) :
              cur' = CASE outcome = "aborted" ->
                            [r EXCEPT !.stage = ErrorStage(variant, "bodyparser"), !.err = RequestAbortedError, !.raisedBy = "bodyparser"]
                       [] outcome = "malformed" ->
                            [r EXCEPT !.stage = ErrorStage(variant, "bodyparser"), !.err = BodySyntaxError, !.raisedBy = "bodyparser"]
                       [] outcome = "tooManyParameters" ->
                            [r EXCEPT !.stage = ErrorStage(variant, "bodyparser"), !.err = TooManyParametersError, !.raisedBy = "bodyparser"]
                       [] outcome = "parsed" ->
                            [r EXCEPT !.stage = NextStage(variant, "bodyparser")]
    /\ UNCHANGED <<variant, production, allowedOriginsEnv, workload, pc, exitCode, log, fatal, hits, issued>>

\* express.static on /uploads and /uploadsfile: for a GET the file is looked
\* up (an asynchronous stat), any other method is passed on at once
Static ==
    /\ pc = "listening"
    /\ cur.stage = "static"
    /\ IF cur.path = "uploads"
       THEN IF cur.method = "GET"
            THEN /\ parked' = Park([Ran(cur, "static") EXCEPT !.stage = "stat"])
                 /\ cur' = NoReq
            ELSE /\ cur' = Pass(cur, "static")
                 /\ UNCHANGED parked
       ELSE /\ cur' = Skip(cur, "static")
            /\ UNCHANGED parked
    /\ UNCHANGED <<variant, production, allowedOriginsEnv, workload, pc, exitCode, log, fatal, hits, issued>>

\* the stat has answered: the file is served, or the request is passed on
StaticStat ==
    /\ pc = "listening"
    /\ cur = NoReq
    /\ \E r \in BagToSet(parked) :
         /\ r.stage = "stat"
         /\ \E found \in BOOLEAN :
              IF found
              THEN /\ parked' = Unpark(r) (+) SetToBag({Send(r, "static", 200, "static", "")})
                   /\ cur' = NoReq
              ELSE /\ parked' = Unpark(r)
                   /\ cur' = [r EXCEPT !.stage = NextStage(variant, "static")]
    /\ UNCHANGED <<variant, production, allowedOriginsEnv, workload, pc, exitCode, log, fatal, hits, issued>>

\* the routers mounted under /api: a handler takes the request, or none does
Routes ==
    /\ pc = "listening"
    /\ cur.stage = "routes"
    /\ IF cur.path = "apiRoute"
       THEN /\ parked' = Park([Ran(cur, "routes") EXCEPT !.stage = "handler", !.handlerRan = TRUE])
            /\ cur' = NoReq
       ELSE /\ cur' = IF UnderApi(cur.path) THEN Pass(cur, "routes") ELSE Skip(cur, "routes")
            /\ UNCHANGED parked
    /\ UNCHANGED <<variant, production, allowedOriginsEnv, workload, pc, exitCode, log, fatal, hits, issued>>

\* a route handler completes: it answers, calls next(err), or calls next()
HandlerDone ==
    /\ pc = "listening"
    /\ cur = NoReq
    /\ \E r \in BagToSet(parked) :
         /\ r.stage = "handler"
         /\ \/ /\ parked' = Unpark(r) (+) SetToBag({Send(r, "routes", 200, "handler", "")})
               /\ cur' = NoReq
            \/ /\ parked' = Unpark(r)
               /\ \E e \in HandlerErrorsFor(workload) :
                    cur' = [r EXCEPT !.stage = ErrorStage(variant, "routes"), !.err = e, !.raisedBy = "routes"]
            \/ /\ parked' = Unpark(r)
               /\ cur' = [r EXCEPT !.stage = NextStage(variant, "routes")]
    /\ UNCHANGED <<variant, production, allowedOriginsEnv, workload, pc, exitCode, log, fatal, hits, issued>>

\* the error-handling middleware: sends what ErrorNormalizer yields; when it
\* throws, the framework passes the new error on to its default handler
Normalizer ==
    /\ pc = "listening"
    /\ cur.stage = "normalizer"
    /\ LET out == ErrorNormalizer(cur.err)
           r == Ran(cur, "normalizer")
       IN IF out.threw
          THEN /\ cur' = [r EXCEPT !.stage = "finalhandler", !.status = out.status]
               /\ UNCHANGED parked
          ELSE /\ parked' = Park([Send(r, "normalizer", out.status, "normalized", out.msg)
                                    EXCEPT !.hasErrs = out.hasErrs, !.errs = out.errs])
               /\ cur' = NoReq
    /\ UNCHANGED <<variant, production, allowedOriginsEnv, workload, pc, exitCode, log, fatal, hits, issued>>

\* the framework's default error handler answers the TypeError, which carries
\* no status, with a non-JSON page: an error status already set on the response
\* is kept, otherwise the status is 500
FinalHandler ==
    /\ pc = "listening"
    /\ cur.stage = "finalhandler"
    /\ parked' = Park(Send(Ran(cur, "finalhandler"), "finalhandler",
                           IF cur.status >= 400 THEN cur.status ELSE 500, "frameworkDefault", ""))
    /\ cur' = NoReq
    /\ UNCHANGED <<variant, production, allowedOriginsEnv, workload, pc, exitCode, log, fatal, hits, issued>>

\* mutant: the body is sent without setting the status
NotFoundWithoutStatus ==
    /\ pc = "listening"
    /\ cur.stage = "notfound"
    /\ parked' = Park(Send(Ran(cur, "notfound"), "notfound", 200, "notFound", NotFoundMessage(variant, cur.path)))
    /\ cur' = NoReq
    /\ UNCHANGED <<variant, production, allowedOriginsEnv, workload, pc, exitCode, log, fatal, hits, issued>>

\* the 404 handler, mounted last
NotFound ==
    /\ pc = "listening"
    /\ cur.stage = "notfound"
    /\ parked' = Park(Send(Ran(cur, "notfound"), "notfound", 404, "notFound", NotFoundMessage(variant, cur.path)))
    /\ cur' = NoReq
    /\ UNCHANGED <<variant, production, allowedOriginsEnv, workload, pc, exitCode, log, fatal, hits, issued>>

\* skipFailedRequests: a response that finished with status >= 400, or a
\* connection closed before the response finished, takes its count back, once
TakesBack(v, r, finished) ==
    SkipFailedRequests(v) /\ r.counted /\ ~r.closed /\ (~finished \/ r.status >= 400)

\* the store gives the request's count back when TakesBack says so
GiveBack(r, finished) ==
    hits' = IF TakesBack(variant, r, finished) THEN Decrement(hits, r.key) ELSE hits

\* the response's finish event
Finish ==
    /\ pc = "listening"
    /\ cur = NoReq
    /\ \E r \in BagToSet(parked) :
         /\ r.stage = "responded"
         /\ parked' = Unpark(r)
         /\ GiveBack(r, TRUE)
    /\ UNCHANGED <<variant, production, allowedOriginsEnv, workload, pc, exitCode, log, fatal, issued, cur>>

\* the client closes the connection before a response was written: the
\* limiter's close listener runs, the pipeline goes on with the request
Abort ==
    /\ pc = "listening"
    /\ cur = NoReq
    /\ ~Steady
    /\ \E r \in BagToSet(parked) :
         /\ r.stage \in {"reading", "draining", "stat", "handler"}
         /\ ~r.closed
         /\ parked' = Unpark(r) (+) SetToBag({[r EXCEPT !.closed = TRUE]})
         /\ GiveBack(r, FALSE)
    /\ UNCHANGED <<variant, production, allowedOriginsEnv, workload, pc, exitCode, log, fatal, issued, cur>>

\* windowMs has passed for some keys (the store resets every key on one timer,
\* or each key when its own window ends): their counts start again at zero; a
\* timer runs between two synchronous segments
WindowElapse ==
    /\ pc = "listening"
    /\ cur = NoReq
    /\ ~Steady
    /\ \E expired \in SUBSET Keys \ {{}} :
         /\ hits' = [k \in Keys |-> IF k \in expired THEN 0 ELSE hits[k]]
         /\ issued' = [k \in Keys |-> IF k \in expired THEN 0 ELSE issued[k]]
    /\ UNCHANGED <<variant, production, allowedOriginsEnv, workload, pc, exitCode, log, fatal, cur, parked>>

Next ==
    \/ LoadModule \/ Authenticate \/ Sync \/ SetupUploadDirectories \/ Listen \/ ListenCallback
    \/ UnhandledRejection \/ UncaughtException
    \/ Arrive \/ Security \/ ForceHttps \/ Limiter \/ Cors \/ BodyParser \/ BodyRefused \/ BodyRead
    \/ Static \/ StaticStat \/ Routes \/ HandlerDone \/ Normalizer \/ FinalHandler \/ NotFound
    \/ Finish \/ Abort \/ WindowElapse

Spec == Init /\ [][Next]_vars

\* ============================================================== claims

Range(seq) == {seq[i] : i \in 1..Len(seq)}

\* the request's origin is absent or a member of the deployment's allow-set
AllowListed(origin) ==
    origin \in {"undefined", ""} \/ origin \in AllowedOrigins(variant, allowedOriginsEnv)

\* every request the process holds
InFlight == BagToSet(parked) \cup (IF cur = NoReq THEN {} ELSE {cur})

\* the requests whose response has been written
Responded == {r \in BagToSet(parked) : r.stage = "responded"}

\* ---- C1

\* C1 as stated: once max /api requests of a key have come to the Rate Limiter
\* in a window, the key's next request in that window does not get past it.
C1_Original ==
    (cur # NoReq /\ UnderApi(cur.path) /\ cur.seq > RateMax(variant)) => cur.stage # "cors"

RateLimited(r) ==
    /\ r.stage = "responded"
    /\ r.sentBy = "limiter"
    /\ r.status = 429
    /\ r.kind = "rateLimit"
    /\ r.msg = RateLimitMessage(variant)
    /\ r.trace[Len(r.trace)] = "limiter"
    /\ ~r.handlerRan

\* C1 (amended): the limiter decides on its own count of the key: exactly the
\* /api requests that reach it are counted, a request that raises the count
\* above max is answered 429 with the configured body and goes no further, a
\* request that raises it to at most max is admitted; the count of a key never
\* exceeds the number of its requests that reached the limiter since the key's
\* window last elapsed, so none of the first max requests of a key in a window
\* is refused, whatever was refused in the window before and whatever other
\* requests are in service; only the variant with skipFailedRequests gives
\* counts back, and in the other variants the count equals that number and no
\* request after the max-th of its key in the window gets past the limiter.
C1_RateLimit ==
    /\ \A k \in Keys : hits[k] <= issued[k]
    /\ ~SkipFailedRequests(variant) =>
         /\ \A k \in Keys : hits[k] = issued[k]
         /\ (cur # NoReq /\ UnderApi(cur.path) /\ cur.seq > RateMax(variant)) => cur.stage # "cors"
    /\ \A r \in InFlight :
         /\ r.counted <=> (UnderApi(r.path) /\ "limiter" \in Range(r.trace))
         /\ r.counted => (r.current > RateMax(variant) <=> RateLimited(r))
         /\ r.kind = "rateLimit" =>
                (r.counted /\ r.current > RateMax(variant) /\ r.seq > RateMax(variant))
    /\ (cur # NoReq /\ cur.stage = "cors" /\ cur.counted) =>
         /\ cur.current = hits[cur.key] /\ hits[cur.key] <= RateMax(variant)
         /\ cur.seq = issued[cur.key]

\* a client refused at max + 1 is admitted again as the first request of its
\* next window, while the refused response and a request of another client
\* are still in service
C1_Witness ==
    /\ cur # NoReq /\ cur.stage = "cors" /\ cur.key = "ipA"
    /\ cur.current = 1 /\ cur.seq = 1
    /\ hits["ipB"] = 1
    /\ \E r \in Responded :
         /\ r.key = "ipA" /\ RateLimited(r) /\ r.current = RateMax(variant) + 1

\* ---- C2

\* C2 as stated: the status, message and errors key the Error Normalizer
\* yields for each error name, first match wins.
C2_Original ==
    \A r \in InFlight :
        (r.err # NoErr /\ "normalizer" \in Range(r.trace)) =>
            CASE r.err.name = "SequelizeValidationError" ->
                    r.status = 400 /\ r.hasErrs /\ r.errs # <<>>
              [] r.err.name = "SequelizeUniqueConstraintError" ->
                    r.status = 400 /\ r.hasErrs /\ r.errs # <<>>
              [] r.err.name = "JsonWebTokenError" ->
                    r.status = 401 /\ ~r.hasErrs
              [] OTHER ->
                    /\ r.status = (IF r.err.status # 0 THEN r.err.status ELSE 500)
                    /\ r.msg = (IF r.err.message # "" THEN r.err.message ELSE MsgServerError)
                    /\ ~r.hasErrs

\* ---- C3

\* C3 as stated: every response to a request with an absent or allowed origin
\* carries the access-control headers; every request with another origin is
\* answered by the normalised error, status 500, and reaches no route handler
\* (the redirect to https, which is no final answer, aside).
C3_Original ==
    /\ \A r \in Responded :
         r.kind # "redirect" =>
             IF AllowListed(r.origin)
             THEN r.ac
             ELSE r.kind = "normalized" /\ r.status = 500
    /\ \A r \in InFlight : ~AllowListed(r.origin) => ~r.handlerRan

\* C3 (amended): a request that reaches the Origin Policy (it was neither
\* redirected nor rate limited, both mounted before it) gets the access-control
\* headers when its origin is absent, empty or allowed, and otherwise the normalised
\* error response, status 500, without them; a response written before the
\* Origin Policy carries no access-control headers; a request with another
\* origin never reaches the static mounts or a route handler.
C3_OriginPolicy ==
    /\ \A r \in Responded :
         IF "cors" \in Range(r.trace)
         THEN IF AllowListed(r.origin)
              THEN r.ac
              ELSE /\ ~r.ac
                   /\ r.kind = "normalized" /\ r.sentBy = "normalizer"
                   /\ r.status = 500 /\ r.msg = "CORS Policy Blocks This Request"
                   /\ ~r.hasErrs
         ELSE ~r.ac /\ r.sentBy \in {"redirect", "limiter"}
    /\ \A r \in InFlight :
         ~AllowListed(r.origin) =>
             ~r.handlerRan /\ Range(r.trace) \cap {"bodyparser", "static", "routes", "notfound"} = {}

\* a request with an empty Origin has been answered with the headers and one
\* with an origin outside the allow-set with the policy error
C3_Witness ==
    /\ \E r \in Responded :
         /\ r.origin = "" /\ "cors" \in Range(r.trace) /\ r.ac /\ r.status = 404
    /\ \E r \in Responded :
         /\ ~AllowListed(r.origin) /\ r.counted /\ "cors" \in Range(r.trace)
         /\ r.status = 500 /\ r.kind = "normalized" /\ ~r.ac

\* ---- C4

\* C4 as stated: a request to a path under no registered prefix is answered
\* 404 with success false whatever its method, origin and headers (the
\* redirect to https, which is no final answer, aside).
C4_Original ==
    \A r \in Responded :
        (r.path = "other" /\ r.kind # "redirect") => (r.status = 404 /\ r.kind = "notFound")

\* the message the responder is to send: the fixed not-found text, with the
\* requested URL after it in the part_001 variant
NotFoundText(r) ==
    IF variant = "part_001"
    THEN CASE r.path = "apiUnknown" -> "msg:api-not-found: /api/unknown"
           [] r.path = "uploads" -> "msg:api-not-found: /uploads/x"
           [] r.path = "other" -> "msg:api-not-found: /foo"
           [] OTHER -> "msg:api-not-found: /api/auth/login"
    ELSE "msg:api-not-found"

\* what an earlier stage does to the request before the responder is reached
StoppedEarly(r) ==
    \/ variant = "part_000" /\ production /\ r.proto # "https"
    \/ r.kind = "rateLimit"
    \/ ~AllowListed(r.origin)
    \/ r.method = "OPTIONS"
    \/ Parsed(r.ctype) /\ r.len > BodyLimit(variant)
    \/ r.err # NoErr

\* C4 (amended): a request that no route and no static mount handles is
\* answered 404 with the not-found JSON body (success false and the not-found
\* message, which in part_001 ends with the requested URL) provided no earlier
\* stage stopped it (redirect, rate limit, an Origin that is neither absent,
\* empty nor allowed, preflight, body too large or malformed); the responder
\* is reached only by requests without an error that no stage has answered.
C4_NotFound ==
    /\ \A r \in Responded :
         r.path \in {"other", "apiUnknown"} =>
             (~StoppedEarly(r) <=>
                 (r.sentBy = "notfound" /\ r.status = 404 /\ r.kind = "notFound" /\ r.msg = NotFoundText(r)))
    /\ \A r \in InFlight :
         "notfound" \in Range(r.trace) =>
             /\ r.err = NoErr
             /\ r.sentBy = "notfound" /\ r.status = 404 /\ r.kind = "notFound"
             /\ r.msg = NotFoundText(r)
             /\ ~StoppedEarly(r)

\* the max-th request of a client in its window, to an unmatched path with an
\* empty Origin, is answered 404 while the client's next one is answered 429
C4_Witness ==
    /\ \E r \in Responded :
         /\ r.path = "apiUnknown" /\ r.origin = "" /\ r.current = RateMax(variant)
         /\ r.sentBy = "notfound" /\ r.status = 404 /\ r.kind = "notFound"
    /\ \E r \in Responded :
         /\ r.path = "apiUnknown" /\ r.kind = "rateLimit" /\ r.status = 429

\* ---- C5

\* C5 as stated: a JSON or form-encoded request whose body exceeds the limit
\* and that comes to the Body Limiter is rejected with status 413.
C5_Original ==
    \A r \in Responded :
        (Parsed(r.ctype) /\ r.len > BodyLimit(variant) /\ "bodyparser" \in Range(r.trace)) =>
            r.status = 413

\* C5 (amended): a JSON or form-encoded request whose body exceeds the
\* variant's limit never reaches the static mounts or a route handler; the
\* body parser refuses it through the error path, with status 415 when its
\* charset or content-encoding is not supported and with status 413
\* otherwise; the too-large error is raised for no body within the limit, and
\* no request a handler ran for has a parsed body above the limit.
C5_BodyLimit ==
    /\ \A r \in InFlight :
         (Parsed(r.ctype) /\ r.len > BodyLimit(variant)) =>
             /\ ~r.handlerRan
             /\ Range(r.trace) \cap {"static", "routes", "notfound"} = {}
             /\ "bodyparser" \in Range(r.trace) =>
                    \/ r.stage = "draining" /\ r.err = NoErr
                    \/ /\ r.err \in {PayloadTooLargeError, UnsupportedMediaTypeError}
                       /\ r.raisedBy = "bodyparser" /\ r.stage \in {"normalizer", "responded"}
             /\ (r.stage = "responded" /\ "bodyparser" \in Range(r.trace)) =>
                    /\ r.status = (IF r.err = PayloadTooLargeError THEN 413 ELSE 415)
                    /\ r.kind = "normalized" /\ r.sentBy = "normalizer"
    /\ \A r \in InFlight :
         r.err = PayloadTooLargeError => (Parsed(r.ctype) /\ r.len > BodyLimit(variant))
    /\ \A r \in InFlight :
         (r.handlerRan /\ Parsed(r.ctype)) => r.len <= BodyLimit(variant)

C5_Witness ==
    \E r \in Responded :
        /\ r.ctype = "form" /\ r.len = BodyLimit(variant) + 1 /\ r.path = "apiRoute"
        /\ r.status = 413 /\ ~r.handlerRan

\* ---- C6

\* C6 as stated: for every error it is given the Error Normalizer sends one
\* JSON response and never throws or passes the error on.
C6_Original ==
    \A r \in InFlight :
        "normalizer" \in Range(r.trace) =>
            (r.stage = "responded" /\ r.sentBy = "normalizer" /\ r.kind = "normalized")

\* ---- C7

\* C7 as stated: each rejection by an early stage (origin, rate limit, body
\* size) is answered by the Error Normalizer, not by the stage itself.
C7_Original ==
    \A r \in Responded :
        (r.kind = "rateLimit" \/ r.raisedBy \in {"cors", "bodyparser"} \/ r.sentBy = "limiter") =>
            (r.sentBy = "normalizer" /\ "normalizer" \in Range(r.trace))

\* C7 (amended): every error a stage or a handler passes to next(err) reaches
\* the Error Normalizer, which answers it (the framework's default handler
\* answers when the normalizer itself throws); origin denials and body-parser
\* errors are always answered by the normalizer; a rate-limit rejection is
\* answered by the Rate Limiter itself and raises no error; the only other
\* error statuses come from the Not-Found Responder.
C7_Propagation ==
    /\ \A r \in InFlight :
         /\ r.err # NoErr <=> r.raisedBy # "none"
         /\ (r.err # NoErr /\ r.stage = "responded") =>
                /\ "normalizer" \in Range(r.trace)
                /\ r.sentBy \in {"normalizer", "finalhandler"}
         /\ "normalizer" \in Range(r.trace) => r.err # NoErr
         /\ r.sentBy = "finalhandler" => ErrorNormalizer(r.err).threw
    /\ \A r \in Responded :
         /\ r.raisedBy \in {"cors", "bodyparser"} =>
                (r.sentBy = "normalizer" /\ r.kind = "normalized" /\ r.status = ErrorNormalizer(r.err).status)
         /\ r.sentBy = "limiter" <=> r.kind = "rateLimit"
         /\ r.kind = "rateLimit" => (r.err = NoErr /\ "normalizer" \notin Range(r.trace))
         /\ r.status >= 400 => r.sentBy \in {"normalizer", "finalhandler", "limiter", "notfound"}

C7_Witness ==
    \E r \in Responded :
        /\ r.err = BodySyntaxError /\ r.raisedBy = "bodyparser"
        /\ r.sentBy = "normalizer" /\ r.status = 400 /\ r.kind = "normalized"

\* ---- C8

StartupOrder == <<"authenticate", "sync", "dirs", "listen", "logPort", "logApiUrl">>
StartupFailures == {"envMissing", "startupError", "logFatal"}

IsPrefix(a, b) == Len(a) <= Len(b) /\ \A i \in 1..Len(a) : a[i] = b[i]

\* the steps performed, without the final failure entry
Performed == IF log # <<>> /\ log[Len(log)] \in StartupFailures THEN SubSeq(log, 1, Len(log) - 1) ELSE log

\* C8: the startup steps happen in the order authenticate, sync, upload
\* directories, listen, log port, log API URL; the listener is bound only
\* after authenticate and sync succeeded; a failed startup step ends the
\* process with exit code 1 and the listener unbound.
C8_Startup ==
    /\ IsPrefix(Performed, StartupOrder)
    /\ pc \in {"bound", "listening"} => IsPrefix(<<"authenticate", "sync", "dirs", "listen">>, log)
    /\ "listen" \in Range(log) => IsPrefix(<<"authenticate", "sync", "dirs", "listen">>, log)
    /\ pc = "sync" => log = <<"authenticate">>
    /\ pc = "dirs" => log = <<"authenticate", "sync">>
    /\ pc = "listen" => log = <<"authenticate", "sync", "dirs">>
    /\ pc = "listening" => log = StartupOrder
    /\ (log # <<>> /\ log[Len(log)] \in {"startupError", "envMissing"}) =>
           (pc = "exited" /\ exitCode = 1 /\ "listen" \notin Range(log))
    /\ pc # "exited" <=> exitCode = -1

C8_Witness == pc = "exited" /\ log = <<"authenticate", "startupError">> /\ exitCode = 1

\* ---- C9

\* C9: once the startup has begun, an unhandled rejection and an uncaught
\* exception can each strike in every state of the running process; each is
\* logged and ends the process with exit code 1, and after the exit no request
\* is in service and nothing further happens.
C9_Guardian ==
    /\ pc \notin {"load", "exited"} => (ENABLED UnhandledRejection /\ ENABLED UncaughtException)
    /\ fatal # "none" => (pc = "exited" /\ exitCode = 1 /\ log[Len(log)] = "logFatal")
    /\ pc = "exited" => (exitCode # 0 /\ cur = NoReq /\ parked = EmptyBag /\ ~ENABLED Next)

C9_Witness ==
    /\ fatal = "unhandledRejection" /\ pc = "exited" /\ exitCode = 1
    /\ log = StartupOrder \o <<"logFatal">>

\* ---- C10

Pos(seq, x) == CHOOSE i \in 1..Len(seq) : seq[i] = x

\* C10 as stated: Origin Policy runs before the security stage and the Rate
\* Limiter, so the limiter counts only requests the Origin Policy has allowed.
C10_Original ==
    \A r \in InFlight :
        /\ r.counted => ("cors" \in Range(r.trace) /\ AllowListed(r.origin))
        /\ ("cors" \in Range(r.trace) /\ "limiter" \in Range(r.trace)) =>
               Pos(r.trace, "cors") < Pos(r.trace, "limiter")

\* the order in which the source mounts the stages
CodeOrder == <<"security", "redirect", "limiter", "cors", "bodyparser", "static", "routes",
               "normalizer", "notfound", "finalhandler">>

\* C10 (amended): each request passes the stages in the order security, (https
\* redirect), Rate Limiter, Origin Policy, Body Limiter, static, Router
\* Dispatch, then Error Normalizer or Not-Found Responder; after a stage has
\* rejected a request only the Error Normalizer (and the framework's default
\* handler) still run for it; the Rate Limiter counts every /api request that
\* reaches it before the Origin Policy has looked at the origin.
C10_StageOrder ==
    \A r \in InFlight :
        /\ \A i, j \in 1..Len(r.trace) :
               i < j => Pos(CodeOrder, r.trace[i]) < Pos(CodeOrder, r.trace[j])
        /\ Range(r.trace) \subseteq Range(CodeOrder)
        /\ r.raisedBy # "none" =>
               \A i \in 1..Len(r.trace) :
                   i > Pos(r.trace, r.raisedBy) => r.trace[i] \in {"normalizer", "finalhandler"}
        /\ r.sentBy # "none" => r.trace[Len(r.trace)] = r.sentBy
        /\ "cors" \in Range(r.trace) =>
               (/\ Pos(r.trace, "security") < Pos(r.trace, "cors")
                /\ UnderApi(r.path) => (r.counted /\ Pos(r.trace, "limiter") < Pos(r.trace, "cors")))
        /\ (cur # NoReq /\ r = cur /\ r.stage \notin {"finalhandler"}) =>
               (r.trace = <<>> \/ Pos(CodeOrder, r.trace[Len(r.trace)]) < Pos(CodeOrder, r.stage))

C10_Witness ==
    \E r \in Responded :
        /\ r.counted /\ ~AllowListed(r.origin) /\ r.raisedBy = "cors"
        /\ r.trace = <<"security", "limiter", "cors", "normalizer">>

====
